---- MODULE Spec2Model ----
(***************************************************************************)
(* Model of remove_chapters_from_mp3 (src/main.py): the chapter filter of  *)
(* a chaptered MP3 file.  One run of the function is a behaviour; every   *)
(* phase of the function body is one action, in program order.            *)
(*                                                                         *)
(* Strings that the code inspects (titles, the filter string, sub-frame    *)
(* keys) are sequences of one-character strings, so that lower(), the `in` *)
(* substring test and startswith() are computed, not assumed.  Identifiers *)
(* that the code only compares for equality are TLA+ strings.  The audio   *)
(* buffer is a sequence of samples, one sample per millisecond; sample k   *)
(* of the input has the value k, and 0 is a silent sample.                 *)
(***************************************************************************)
EXTENDS Integers, Sequences, FiniteSets, TLC

VARIABLES
    input_id3,                  \* the tag set as decoded, never changed (for the properties)
    id3,                        \* id3 = ID3(input_file): frames in iteration order, mutated in place
    filter_string,              \* the filter_string argument
    audio_segment,              \* AudioSegment.from_mp3(input_file)
    exported_tags,              \* the tags the exported output file already carries (ID3(output_file))
    toc_element,                \* index into id3 of the CTOC frame kept, 0 for None
    all_chapters,               \* list of (element_id, frame, title, start_time, end_time)
    chapters_to_remove,         \* list of element ids
    chapters_time_adjustments,  \* list of cumulative adjustments, one per chapter
    total_time_adjustment,
    valid_chapters,             \* list of frames (indexes into id3)
    new_audio_segment,
    output_id3,                 \* the tag set handed to save(): HashKey -> frame
    pc

vars == <<input_id3, id3, filter_string, audio_segment, exported_tags, toc_element,
          all_chapters, chapters_to_remove, chapters_time_adjustments,
          total_time_adjustment, valid_chapters, new_audio_segment, output_id3, pc>>

----------------------------------------------------------------------------
(* Bounds of the input space *)

MaxChapters == 3

MaxTime == 2

----------------------------------------------------------------------------
(* Strings *)

Str_Ad == <<"A", "d">>
Str_aD == <<"a", "D">>
Str_z == <<"z">>
Str_TIT2 == <<"T", "I", "T", "2">>
Str_TIT3 == <<"T", "I", "T", "3">>

\* str.lower() on one character
LowerChar(c) ==
    CASE c = "A" -> "a"
      [] c = "D" -> "d"
      [] c = "Z" -> "z"
      [] OTHER -> c

\* str.lower()
Lower(s) == [i \in 1..Len(s) |-> LowerChar(s[i])]

\* sub in s (substring test of Python's `in` on str)
Contains(sub, s) ==
    \E i \in 0..(Len(s) - Len(sub)) : SubSeq(s, i + 1, i + Len(sub)) = sub

\* s.startswith(prefix)
StartsWith(s, prefix) ==
    /\ Len(prefix) <= Len(s)
    /\ SubSeq(s, 1, Len(prefix)) = prefix

----------------------------------------------------------------------------
(* Frames *)

\* A frame of the tag set.  kind is the frame id (CHAP, CTOC, TIT2, TDRL, ...);
\* the fields a kind does not have keep their empty value.
ChapFrame(id, subs, s, e) ==
    [kind |-> "CHAP", element_id |-> id, sub_frames |-> subs, start_time |-> s,
     end_time |-> e, child_element_ids |-> <<>>, text |-> ""]

TocFrame(id, children) ==
    [kind |-> "CTOC", element_id |-> id, sub_frames |-> <<>>, start_time |-> 0,
     end_time |-> 0, child_element_ids |-> children, text |-> ""]

TextFrame(name, txt) ==
    [kind |-> name, element_id |-> "", sub_frames |-> <<>>, start_time |-> 0,
     end_time |-> 0, child_element_ids |-> <<>>, text |-> txt]

IsCHAP(frame) == frame.kind = "CHAP"
IsCTOC(frame) == frame.kind = "CTOC"

\* a key that leaves the element id out
HashKey_KindOnly(frame) == <<frame.kind, "">>

\* mutagen's Frame.HashKey: the key of a frame in a tag set
HashKey(frame) == <<frame.kind, frame.element_id>>

\* ID3.add(frame): self[frame.HashKey] = frame
Add(tags, frame) ==
    [k \in (DOMAIN tags) \cup {HashKey(frame)} |->
        IF k = HashKey(frame) THEN frame ELSE tags[k]]

NoTags == <<>>

RECURSIVE AddAll(_, _)
AddAll(tags, frames) ==
    IF frames = <<>> THEN tags
    ELSE AddAll(Add(tags, Head(frames)), Tail(frames))

\* x in list
InList(x, list) == \E i \in 1..Len(list) : list[i] = x

Min(a, b) == IF a <= b THEN a ELSE b
Max(a, b) == IF a >= b THEN a ELSE b

\* list.sort(key=...): stable, ascending; keys[i] is the key of s[i]
StableSort(s, keys) ==
    LET Rank(i) == Cardinality({j \in 1..Len(s) :
                        \/ keys[j] < keys[i]
                        \/ keys[j] = keys[i] /\ j < i}) + 1
    IN  [r \in 1..Len(s) |-> s[CHOOSE i \in 1..Len(s) : Rank(i) = r]]

Indexes(frames) == [i \in 1..Len(frames) |-> i]

----------------------------------------------------------------------------
(* Lines 33-46: collect the chapters and the table of contents *)

\* the title of a chapter: str() of the first sub-frame whose key starts with TIT2
ChapterTitle(frame) ==
    LET subs == frame.sub_frames
        hits == {i \in 1..Len(subs) : StartsWith(subs[i].key, Str_TIT2)}
    IN  IF hits = {} THEN <<>>
        ELSE subs[CHOOSE i \in hits : \A j \in hits : i <= j].text

\* one entry of all_chapters for the frame at index i of frames
ChapterEntry(frames, i) ==
    <<frames[i].element_id, i, ChapterTitle(frames[i]),
      frames[i].start_time, frames[i].end_time>>

CollectChapters(frames) ==
    LET chapIdx == SelectSeq(Indexes(frames), LAMBDA i : IsCHAP(frames[i]))
    IN  [n \in 1..Len(chapIdx) |-> ChapterEntry(frames, chapIdx[n])]

\* toc_element after the loop: the last CTOC frame iterated, None (0) if there is none
CollectToc(frames) ==
    LET tocIdx == {i \in 1..Len(frames) : IsCTOC(frames[i])}
    IN  IF tocIdx = {} THEN 0 ELSE CHOOSE i \in tocIdx : \A j \in tocIdx : j <= i

\* all_chapters.sort(key=lambda x: x[3])
SortChapters(chs) == StableSort(chs, [i \in 1..Len(chs) |-> chs[i][4]])

----------------------------------------------------------------------------
(* Lines 52-62: which chapters go, and the running time adjustment *)

\* the same test without lower()
TitleMatches_CaseSensitive(flt, title) == Contains(flt, title)

\* filter_string.lower() in title.lower()
TitleMatches(flt, title) == Contains(Lower(flt), Lower(title))

\* a duration that forgets the start
ChapterDuration_EndOnly(entry) == entry[5]

\* chapter_duration = end_time - start_time
ChapterDuration(entry) == entry[5] - entry[4]

RECURSIVE PlanLoop(_, _, _, _, _, _)
PlanLoop(chs, flt, i, total, remove, adjustments) ==
    IF i > Len(chs)
    THEN [remove |-> remove, adjustments |-> adjustments, total |-> total]
    ELSE LET matches == TitleMatches(flt, chs[i][3])
             total2 == IF matches THEN total + ChapterDuration(chs[i]) ELSE total
             remove2 == IF matches THEN Append(remove, chs[i][1]) ELSE remove
         IN  PlanLoop(chs, flt, i + 1, total2, remove2, Append(adjustments, total2))

----------------------------------------------------------------------------
(* Lines 67-73: shift the frames of the chapters that stay, in place *)

\* a shift of the start alone
RetimeFrame_StartOnly(frame, adjustment) ==
    [frame EXCEPT !.start_time = @ - adjustment]

RetimeFrame(frame, adjustment) ==
    [frame EXCEPT !.start_time = @ - adjustment, !.end_time = @ - adjustment]

RECURSIVE RetimeLoop(_, _, _, _, _)
RetimeLoop(frames, chs, i, remove, adjustments) ==
    IF i > Len(chs) THEN frames
    ELSE LET k == chs[i][2]
             frames2 == IF ~InList(chs[i][1], remove)
                        THEN [frames EXCEPT ![k] = RetimeFrame(frames[k], adjustments[i])]
                        ELSE frames
         IN  RetimeLoop(frames2, chs, i + 1, remove, adjustments)

----------------------------------------------------------------------------
(* Lines 78-81: drop the removed ids from the table of contents *)

\* a table of contents left as it was
FilterChildren_KeepAll(children, remove) == children

FilterChildren(children, remove) ==
    SelectSeq(children, LAMBDA x : ~InList(x, remove))

----------------------------------------------------------------------------
(* Lines 91-112: rebuild the audio *)

\* AudioSegment._parse_position: a negative position counts from the end
ParsePosition(val, length) == IF val < 0 THEN length - (-val) ELSE val

\* data[i:j] of Python
PySlice(data, i, j) ==
    LET n == Len(data)
        a == IF i < 0 THEN Max(i + n, 0) ELSE Min(i, n)
        b == IF j < 0 THEN Max(j + n, 0) ELSE Min(j, n)
    IN  SubSeq(data, a + 1, b)

Silence(n) == [i \in 1..n |-> 0]

\* audio_segment[start_time:end_time] (line 111): the slice, or raised when the
\* slice would need more than 2 ms of filling
AudioSlice(seg, start_time, end_time) ==
    LET length == Len(seg)
        start == ParsePosition(Min(start_time, length), length)
        end == ParsePosition(Min(end_time, length), length)
        data == PySlice(seg, start, end)
        missing == (end - start) - Len(data)
    IN  IF missing > 2
        THEN [raised |-> TRUE, data |-> <<>>]
        ELSE [raised |-> FALSE,
              data |-> IF missing > 0 /\ data # <<>> THEN data \o Silence(missing) ELSE data]

\* every chapter frame, removed or not
ValidChapters_IgnoreRemove(frames, remove) ==
    LET keep == SelectSeq(Indexes(frames), LAMBDA i : IsCHAP(frames[i]))
    IN  StableSort(keep, [n \in 1..Len(keep) |-> frames[keep[n]].start_time])

\* the frames to keep, in id3 order, then sorted by their (current) start_time
ValidChapters(frames, remove) ==
    LET keep == SelectSeq(Indexes(frames),
                    LAMBDA i : IsCHAP(frames[i]) /\ ~InList(frames[i].element_id, remove))
    IN  StableSort(keep, [n \in 1..Len(keep) |-> frames[keep[n]].start_time])

RECURSIVE SpliceLoop(_, _, _, _, _)
SpliceLoop(seg, frames, valid, i, out) ==
    IF i > Len(valid) THEN [raised |-> FALSE, data |-> out]
    ELSE LET piece == AudioSlice(seg, frames[valid[i]].start_time, frames[valid[i]].end_time)
         IN  IF piece.raised THEN [raised |-> TRUE, data |-> out]
             ELSE SpliceLoop(seg, frames, valid, i + 1, out \o piece.data)

----------------------------------------------------------------------------
(* Lines 123-146: the tags of the output file *)

Today == "2026-11-02"

\* a copy loop that copies the chapters only
CopiedFrames_ChaptersOnly(frames, remove) ==
    SelectSeq(frames, LAMBDA f : IsCHAP(f) /\ ~InList(f.element_id, remove))

\* the frames the copy loop adds, in id3 order
CopiedFrames(frames, remove) ==
    SelectSeq(frames, LAMBDA f :
        IF IsCHAP(f) THEN ~InList(f.element_id, remove) ELSE ~IsCTOC(f))

\* an output that never gets the table of contents
BuildOutputTags_NoToc(initial, frames, toc, remove) ==
    Add(AddAll(initial, CopiedFrames(frames, remove)), TextFrame("TDRL", Today))

BuildOutputTags(initial, frames, toc, remove) ==
    LET withToc == IF toc # 0 THEN Add(initial, frames[toc]) ELSE initial
        copied == AddAll(withToc, CopiedFrames(frames, remove))
    IN  Add(copied, TextFrame("TDRL", Today))

----------------------------------------------------------------------------
(* The inputs *)

\* element ids of the input chapters, by position in the file
InputIds == <<"ch2", "ch1", "intro", "c4", "c5">>

\* start_time <= end_time, as the chapter frames of a well-formed file have it
TimePairs == {p \in (0..MaxTime) \X (0..MaxTime) : p[1] <= p[2]}

\* chapters of one millisecond each
UnitTimePairs == {p \in TimePairs : p[2] = p[1] + 1}

\* the sub-frames of a chapter: none, or a subtitle "z" and then the title "Ad"
SubFrameChoices ==
    { <<>>,
      <<[key |-> Str_TIT3, text |-> Str_z], [key |-> Str_TIT2, text |-> Str_Ad]>> }

FilterChoices == { <<>>, Str_aD, Str_z }

ChapterLists(times) ==
    UNION {[1..n -> SubFrameChoices \X times] : n \in 0..MaxChapters}

ChapterFrames(list) ==
    [k \in 1..Len(list) |->
        ChapFrame(InputIds[k], list[k][1], list[k][2][1], list[k][2][2])]

Reverse(s) == [i \in 1..Len(s) |-> s[Len(s) + 1 - i]]

FileOrderToc(list) == <<TocFrame("toc", [k \in 1..Len(list) |-> InputIds[k]])>>

\* the table of contents of the input: none; the chapters in file order; or a
\* stale id followed by the chapters in reverse file order
TocChoices(list) ==
    { <<>>,
      FileOrderToc(list),
      <<TocFrame("toc", <<"gone">> \o Reverse([k \in 1..Len(list) |-> InputIds[k]]))>> }

ShowFrames ==
    <<TextFrame("TIT2", "Show"), TextFrame("TDRL", "2020-01-01"),
      TextFrame("TSSE", "studio")>>

\* the other frames of the input
OtherChoices == { <<>>, ShowFrames }

EncoderTags == Add(NoTags, TextFrame("TSSE", "Lavf"))

\* what the encoder wrote into the exported file before the tags are copied
ExportedChoices == { NoTags, EncoderTags }

AudioBuffer(n) == [i \in 1..n |-> i]

\* Inputs that vary the timing: any chapter ranges; the filter "aD" removes
\* exactly the titled chapters, so every subset of the chapters can be the
\* removed one
TimingInputs ==
    /\ \E list \in ChapterLists(TimePairs) :
            input_id3 = ShowFrames \o FileOrderToc(list) \o ChapterFrames(list)
    /\ filter_string = Str_aD
    /\ audio_segment = AudioBuffer(MaxTime)
    /\ exported_tags = EncoderTags

\* Inputs that vary the rest: the filter, the table of contents, the other
\* frames and the encoder's tags, over chapters of one millisecond each
TagInputs ==
    /\ \E list \in ChapterLists(UnitTimePairs), others \in OtherChoices :
         \E toc \in TocChoices(list) :
            input_id3 = others \o toc \o ChapterFrames(list)
    /\ filter_string \in FilterChoices
    /\ audio_segment = AudioBuffer(MaxTime)
    /\ exported_tags \in ExportedChoices

TypeOK ==
    /\ pc \in {"collect", "sort", "plan", "retime", "toc", "splice", "tags",
               "done", "raised"}
    /\ toc_element \in 0..Len(id3)
    /\ Len(id3) = Len(input_id3)

Init ==
    /\ TimingInputs \/ TagInputs
    /\ id3 = input_id3
    /\ toc_element = 0
    /\ all_chapters = <<>>
    /\ chapters_to_remove = <<>>
    /\ chapters_time_adjustments = <<>>
    /\ total_time_adjustment = 0
    /\ valid_chapters = <<>>
    /\ new_audio_segment = <<>>
    /\ output_id3 = NoTags
    /\ pc = "collect"

\* lines 33-46
Collect ==
    /\ pc = "collect"
    /\ all_chapters' = CollectChapters(id3)
    /\ toc_element' = CollectToc(id3)
    /\ pc' = "sort"
    /\ UNCHANGED <<input_id3, id3, filter_string, audio_segment, exported_tags,
                   chapters_to_remove, chapters_time_adjustments,
                   total_time_adjustment, valid_chapters, new_audio_segment, output_id3>>

\* line 49
Sort ==
    /\ pc = "sort"
    /\ all_chapters' = SortChapters(all_chapters)
    /\ pc' = "plan"
    /\ UNCHANGED <<input_id3, id3, filter_string, audio_segment, exported_tags,
                   toc_element, chapters_to_remove, chapters_time_adjustments,
                   total_time_adjustment, valid_chapters, new_audio_segment, output_id3>>

\* lines 52-62
Plan ==
    /\ pc = "plan"
    /\ LET plan == PlanLoop(all_chapters, filter_string, 1, 0, <<>>, <<>>)
       IN  /\ chapters_to_remove' = plan.remove
           /\ chapters_time_adjustments' = plan.adjustments
           /\ total_time_adjustment' = plan.total
    /\ pc' = "retime"
    /\ UNCHANGED <<input_id3, id3, filter_string, audio_segment, exported_tags,
                   toc_element, all_chapters, valid_chapters, new_audio_segment,
                   output_id3>>

\* lines 65-73
Retime ==
    /\ pc = "retime"
    /\ all_chapters' = SortChapters(all_chapters)
    /\ id3' = RetimeLoop(id3, all_chapters', 1, chapters_to_remove,
                         chapters_time_adjustments)
    /\ pc' = "toc"
    /\ UNCHANGED <<input_id3, filter_string, audio_segment, exported_tags,
                   toc_element, chapters_to_remove, chapters_time_adjustments,
                   total_time_adjustment, valid_chapters, new_audio_segment, output_id3>>

\* lines 78-82
UpdateToc ==
    /\ pc = "toc"
    /\ id3' = IF toc_element # 0
              THEN [id3 EXCEPT ![toc_element].child_element_ids =
                        FilterChildren(@, chapters_to_remove)]
              ELSE id3
    /\ pc' = "splice"
    /\ UNCHANGED <<input_id3, filter_string, audio_segment, exported_tags,
                   toc_element, all_chapters, chapters_to_remove,
                   chapters_time_adjustments, total_time_adjustment, valid_chapters,
                   new_audio_segment, output_id3>>

\* lines 91-112
Splice ==
    /\ pc = "splice"
    /\ valid_chapters' = ValidChapters(id3, chapters_to_remove)
    /\ LET res == SpliceLoop(audio_segment, id3, valid_chapters', 1, <<>>)
       IN  /\ new_audio_segment' = res.data
           /\ pc' = IF res.raised THEN "raised" ELSE "tags"
    /\ UNCHANGED <<input_id3, id3, filter_string, audio_segment, exported_tags,
                   toc_element, all_chapters, chapters_to_remove,
                   chapters_time_adjustments, total_time_adjustment, output_id3>>

\* lines 123-150
CopyTags ==
    /\ pc = "tags"
    /\ output_id3' = BuildOutputTags(exported_tags, id3, toc_element, chapters_to_remove)
    /\ pc' = "done"
    /\ UNCHANGED <<input_id3, id3, filter_string, audio_segment, exported_tags,
                   toc_element, all_chapters, chapters_to_remove,
                   chapters_time_adjustments, total_time_adjustment, valid_chapters,
                   new_audio_segment>>

Next ==
    \/ Collect
    \/ Sort
    \/ Plan
    \/ Retime
    \/ UpdateToc
    \/ Splice
    \/ CopyTags

Spec == Init /\ [][Next]_vars

----------------------------------------------------------------------------------------------------------------------------------------------
(* What the properties speak about: the input as decoded, and the output *)

Done == pc = "done"

\* the chapters of the input, in file order
InputChapters == SelectSeq(input_id3, IsCHAP)

\* the timeline: all input chapters ascending by start_ms, ties in input order
Timeline ==
    LET chapters == InputChapters
    IN  StableSort(chapters, [i \in 1..Len(chapters) |-> chapters[i].start_time])

\* the title of an input chapter: the text of its first TIT2 sub-frame, else empty
TitleOf(chapter) ==
    LET titles == SelectSeq(chapter.sub_frames, LAMBDA sf : StartsWith(sf.key, Str_TIT2))
    IN  IF titles = <<>> THEN <<>> ELSE titles[1].text

\* the title contains filter_string as a case-insensitive substring
IsFiltered(chapter) ==
    LET title == TitleOf(chapter)
    IN  \E i \in 0..(Len(title) - Len(filter_string)) :
            Lower(SubSeq(title, i + 1, i + Len(filter_string))) = Lower(filter_string)

Retained(chapters) == SelectSeq(chapters, LAMBDA c : ~IsFiltered(c))

Ids(chapters) == [n \in 1..Len(chapters) |-> chapters[n].element_id]

IdSet(chapters) == {chapters[n].element_id : n \in 1..Len(chapters)}

RemovedIds == IdSet(SelectSeq(InputChapters, IsFiltered))

\* shift[i]: the total duration of the removed chapters at indexes <= i of tl
RECURSIVE Shift(_, _)
Shift(tl, i) ==
    IF i = 0 THEN 0
    ELSE Shift(tl, i - 1) + (IF IsFiltered(tl[i])
                             THEN tl[i].end_time - tl[i].start_time ELSE 0)

OutChapterKeys == {k \in DOMAIN output_id3 : k[1] = "CHAP"}
OutTocKeys == {k \in DOMAIN output_id3 : k[1] = "CTOC"}
OutChapter(id) == output_id3[<<"CHAP", id>>]
OutToc == output_id3[CHOOSE k \in OutTocKeys : TRUE]

InputTocs == SelectSeq(input_id3, IsCTOC)
InputChildIds == InputTocs[Len(InputTocs)].child_element_ids

\* 0 <= start_ms <= end_ms for every chapter
WellFormed(chapters) ==
    \A i \in 1..Len(chapters) :
        0 <= chapters[i].start_time /\ chapters[i].start_time <= chapters[i].end_time

\* the chapters of tl lie one after the other: none starts before the previous ends
NonOverlapping(tl) ==
    \A i \in 1..(Len(tl) - 1) : tl[i].end_time <= tl[i + 1].start_time

WithinBuffer ==
    LET chapters == InputChapters
    IN  /\ WellFormed(chapters)
        /\ \A i \in 1..Len(chapters) : chapters[i].end_time <= Len(audio_segment)

AllRemoved == Retained(InputChapters) = <<>>

ChLabel == <<"ch1", "ch2", "ch3", "ch4", "ch5">>

----------------------------------------------------------------------------
(* C1: the output audio is the concatenation, in ascending original start   *)
(* order, of buffer[original_start:original_end] of each retained chapter.  *)

RECURSIVE OriginalRanges(_, _)
OriginalRanges(kept, i) ==
    IF i = 0 THEN <<>>
    ELSE OriginalRanges(kept, i - 1)
            \o PySlice(audio_segment, kept[i].start_time, kept[i].end_time)

C1_AudioIsOriginalRanges ==
    Done => LET kept == Retained(Timeline)
            IN  new_audio_segment = OriginalRanges(kept, Len(kept))

----------------------------------------------------------------------------
(* C2: a chapter frame is in the output tag set if and only if its title    *)
(* (first TIT2 sub-frame, else empty) does not contain filter_string as a   *)
(* case-insensitive substring.                                              *)

C2_ChapterEmittedIffNotFiltered ==
    Done =>
        LET chapters == InputChapters
            out == OutChapterKeys
        IN  /\ \A i \in 1..Len(chapters) :
                    (<<"CHAP", chapters[i].element_id>> \in out) <=> ~IsFiltered(chapters[i])
            /\ \A k \in out : k[2] \in IdSet(chapters)

C2_Witness ==
    /\ Done
    /\ filter_string = Str_aD
    /\ \E i, j \in 1..Len(InputChapters) :
          /\ TitleOf(InputChapters[i]) = Str_Ad
          /\ TitleOf(InputChapters[j]) = <<>>
          /\ <<"CHAP", InputChapters[i].element_id>> \notin OutChapterKeys
          /\ <<"CHAP", InputChapters[j].element_id>> \in OutChapterKeys

----------------------------------------------------------------------------
(* C3: a retained chapter at timeline index i is emitted with               *)
(* new_start = old_start - shift[i] and new_end = old_end - shift[i]; with  *)
(* nothing removed the offsets are unchanged.                               *)

C3_RetimedByShift ==
    Done =>
        LET tl == Timeline
            nothingRemoved == Len(Retained(tl)) = Len(tl)
        IN  \A i \in 1..Len(tl) :
                ~IsFiltered(tl[i]) =>
                    /\ <<"CHAP", tl[i].element_id>> \in DOMAIN output_id3
                    /\ LET new == OutChapter(tl[i].element_id)
                           shift == Shift(tl, i)
                       IN  /\ new.start_time = tl[i].start_time - shift
                           /\ new.end_time = tl[i].end_time - shift
                           /\ nothingRemoved =>
                                /\ new.start_time = tl[i].start_time
                                /\ new.end_time = tl[i].end_time

C3_Witness ==
    /\ Done
    /\ LET tl == Timeline
       IN  \E i \in 1..Len(tl) :
              /\ ~IsFiltered(tl[i])
              /\ Shift(tl, i) = 2
              /\ \E j, k \in 1..(i - 1) : j # k /\ IsFiltered(tl[j]) /\ IsFiltered(tl[k])
              /\ OutChapter(tl[i].element_id).start_time = tl[i].start_time - 2

----------------------------------------------------------------------------
(* C4 as stated: the output chapter ids are exactly "ch1".."chN", assigned  *)
(* in ascending time order, replacing the input ids.                        *)

C4_IdsRenumbered ==
    Done =>
        LET kept == Retained(Timeline)
            out == OutChapterKeys
        IN  /\ Cardinality(out) = Len(kept)
            /\ \A n \in 1..Len(kept) :
                  /\ <<"CHAP", ChLabel[n]>> \in out
                  /\ OutChapter(ChLabel[n]).sub_frames = kept[n].sub_frames
                  /\ OutChapter(ChLabel[n]).end_time - OutChapter(ChLabel[n]).start_time
                        = kept[n].end_time - kept[n].start_time

(* C4 as amended: every retained chapter is emitted under the id it had on  *)
(* input, and there is no other chapter frame: nothing is renumbered.       *)

C4_IdsKept ==
    Done =>
        LET kept == Retained(Timeline)
            out == OutChapterKeys
        IN  /\ Cardinality(out) = Len(kept)
            /\ \A n \in 1..Len(kept) :
                  /\ <<"CHAP", kept[n].element_id>> \in out
                  /\ OutChapter(kept[n].element_id).element_id = kept[n].element_id
                  /\ OutChapter(kept[n].element_id).sub_frames = kept[n].sub_frames

C4_Witness ==
    /\ Done
    /\ Len(Retained(Timeline)) = 2
    /\ RemovedIds # {}
    /\ {k[2] : k \in OutChapterKeys} = {"ch2", "intro"}

----------------------------------------------------------------------------
(* C5 as stated: with a TOC in the input, the output TOC's child_ids is the *)
(* sequence of the output chapter ids in ascending time order.              *)

C5_TocIsChaptersInTimeOrder ==
    (Done /\ InputTocs # <<>>) =>
        /\ OutTocKeys # {}
        /\ OutToc.child_element_ids = Ids(Retained(Timeline))

(* C5 as amended: the output TOC's child_ids is the input TOC's child_ids   *)
(* with the ids of the removed chapters dropped, in input order; it is the  *)
(* output chapter ids in time order when the input list was the chapter ids *)
(* in time order.                                                           *)

C5_TocIsInputListFiltered ==
    (Done /\ InputTocs # <<>>) =>
        LET tl == Timeline
            removed == RemovedIds
            children == InputChildIds
        IN  /\ Cardinality(OutTocKeys) = 1
            /\ OutToc.child_element_ids = SelectSeq(children, LAMBDA x : x \notin removed)
            /\ children = Ids(tl) => OutToc.child_element_ids = Ids(Retained(tl))

C5_Witness ==
    /\ Done
    /\ InputTocs # <<>>
    /\ InputChildIds = <<"gone", "intro", "ch1", "ch2">>
    /\ OutToc.child_element_ids = <<"gone", "ch1">>

----------------------------------------------------------------------------
(* C6: when every chapter range lies within the audio buffer, the length of *)
(* the output audio is the sum of (new_end - new_start) over the emitted    *)
(* chapter frames.                                                          *)

RECURSIVE EmittedDuration(_)
EmittedDuration(keys) ==
    IF keys = {} THEN 0
    ELSE LET k == CHOOSE x \in keys : TRUE
         IN  (output_id3[k].end_time - output_id3[k].start_time)
                + EmittedDuration(keys \ {k})

C6_DurationConserved ==
    (Done /\ WithinBuffer) => Len(new_audio_segment) = EmittedDuration(OutChapterKeys)

----------------------------------------------------------------------------
(* C7 as stated: for chapters with 0 <= start_ms <= end_ms, retained        *)
(* chapters i < j in timeline order have new_end[i] <= new_start[j].        *)

Monotonic(kept) ==
    \A i, j \in 1..Len(kept) :
        i < j => OutChapter(kept[i].element_id).end_time
                    <= OutChapter(kept[j].element_id).start_time

C7_MonotonicRetiming ==
    Done => LET tl == Timeline
            IN  WellFormed(tl) => Monotonic(Retained(tl))

(* C7 as amended: the same, for inputs whose chapters do not overlap (in    *)
(* timeline order none starts before the previous one ends).                *)

C7_MonotonicWhenNonOverlapping ==
    Done => LET tl == Timeline
            IN  (WellFormed(tl) /\ NonOverlapping(tl)) => Monotonic(Retained(tl))

C7_Witness ==
    /\ Done
    /\ LET tl == Timeline
       IN  /\ NonOverlapping(tl)
           /\ \E i, j, k \in 1..Len(tl) :
                 /\ i < j /\ j < k
                 /\ ~IsFiltered(tl[i])
                 /\ IsFiltered(tl[j])
                 /\ ~IsFiltered(tl[k])
                 /\ tl[j].end_time > tl[j].start_time
                 /\ OutChapter(tl[i].element_id).end_time
                       = OutChapter(tl[k].element_id).start_time

----------------------------------------------------------------------------
(* C8 as stated: when the filter matches every title the run does not raise *)
(* and yields no chapter frame, an empty audio buffer and an output TOC     *)
(* with zero children.                                                      *)

C8_AllRemovedEmptyToc ==
    (pc \in {"raised", "done"} /\ AllRemoved) =>
        /\ pc # "raised"
        /\ OutChapterKeys = {}
        /\ new_audio_segment = <<>>
        /\ OutTocKeys # {}
        /\ OutToc.child_element_ids = <<>>

(* C8 as amended: ... no chapter frame, an empty audio buffer and, when the *)
(* input has a TOC, an output TOC that lists no chapter of the input (only  *)
(* child ids that named no input chapter stay); without an input TOC the    *)
(* output has none.                                                         *)

C8_AllRemovedNoChapterLeft ==
    (pc \in {"raised", "done"} /\ AllRemoved) =>
        /\ pc # "raised"
        /\ OutChapterKeys = {}
        /\ new_audio_segment = <<>>
        /\ InputTocs = <<>> => OutTocKeys = {}
        /\ InputTocs # <<>> =>
              LET chapterIds == IdSet(InputChapters)
              IN  /\ OutTocKeys # {}
                  /\ OutToc.child_element_ids
                        = SelectSeq(InputChildIds, LAMBDA x : x \notin chapterIds)

C8_Witness ==
    /\ Done
    /\ filter_string = <<>>
    /\ Len(InputChapters) = MaxChapters
    /\ \E i \in 1..Len(InputChapters) : TitleOf(InputChapters[i]) = <<>>
    /\ InputTocs # <<>>
    /\ OutToc.child_element_ids = <<"gone">>
    /\ new_audio_segment = <<>>

----------------------------------------------------------------------------
(* C9 as stated: the output tag set has exactly one TOC entry, synthesized  *)
(* when the input has none, with the input TOC's id otherwise.              *)

C9_AlwaysOneToc ==
    Done =>
        /\ Cardinality(OutTocKeys) = 1
        /\ InputTocs # <<>> => OutToc.element_id = InputTocs[Len(InputTocs)].element_id

(* C9 as amended: without a TOC in the input the run still completes and    *)
(* the output tag set has no TOC entry; with one, the output has exactly    *)
(* one TOC entry, with the input TOC's id.                                  *)

C9_TocOnlyIfInputHasOne ==
    Done =>
        /\ InputTocs = <<>> => OutTocKeys = {}
        /\ InputTocs # <<>> =>
              /\ Cardinality(OutTocKeys) = 1
              /\ OutToc.element_id = InputTocs[Len(InputTocs)].element_id

C9_Witness ==
    /\ Done
    /\ InputTocs = <<>>
    /\ OutChapterKeys # {}
    /\ OutTocKeys = {}

----------------------------------------------------------------------------
(* C10: every input frame that is neither chapter, TOC nor processing date  *)
(* is in the output under the same key with the same payload; the run adds  *)
(* no other such frame (what is there besides was in the exported file      *)
(* already); and the output has exactly one processing-date frame, holding  *)
(* the current date.                                                        *)

IsOtherKind(kind) == kind \notin {"CHAP", "CTOC", "TDRL"}

====
